---- MODULE Spec2Model ----
(***************************************************************************)
(* Model of python3_cron_scripts/get_sonar_data_unified.py: the Sonar DNS  *)
(* ingestion script.  Strings are sequences of one-character strings, a    *)
(* decoded JSON object is a function from its keys to its values, the      *)
(* reverse collection is the sequence of its documents, and the forward    *)
(* collection is the sequence of documents handed to insert_record.        *)
(***************************************************************************)
EXTENDS Integers, Sequences, FiniteSets, TLC

VARIABLES
    pc,               \* position of main: start, find, download, update, done, exit0, exit1
                      \* (find_zone when find_zone is called on its own)
    sonar_file_type,  \* args.sonar_file_type
    zones,            \* ZoneManager.get_distinct_zones: sequence of zone strings
    todo,             \* URLs of html_parser still to download and ingest
    read,             \* lines the update loop has taken from the files, each with its clock
                      \* reads, the exception it raised and the store operations it made
    rdns_collection,  \* documents of the sonar reverse-DNS collection
    rdns_initial,     \* the reverse collection as it was when the run started
    sonar_dns,        \* documents passed to dns_mgr.insert_record, in call order
    clock,            \* last value datetime.now() returned
    job_calls,        \* calls made on jobs_manager, in order
    fz_domain,        \* find_zone harness: the domain argument
    fz_zones,         \* find_zone harness: the zones argument
    fz_result         \* find_zone harness: <<>> before the call, <<result>> after it

vars == <<pc, sonar_file_type, zones, todo, read, rdns_collection, rdns_initial,
          sonar_dns, clock, job_calls, fz_domain, fz_zones, fz_result>>

----------------------------------------------------------------------------
(* Bounds of the model *)

MaxLines == 3      \* lines read in one run
MaxClock == 1      \* largest value the clock reaches
MaxDomainLen == 4  \* find_zone harness: longest domain
MaxZoneLen == 2    \* find_zone harness: longest zone string
MaxZones == 2      \* find_zone harness: longest zone sequence

----------------------------------------------------------------------------
(* Strings *)

Chars == {"a", "."}

None == <<"None">>          \* Python None / JSON null (no string has this element)

EmptyStr == <<>>

Dot == <<".">>

RECURSIVE StringsUpTo(_)
StringsUpTo(n) ==
    IF n = 0 THEN {EmptyStr}
    ELSE LET S == StringsUpTo(n - 1)
         IN  S \cup {Append(s, c) : s \in {x \in S : Len(x) = n - 1}, c \in Chars}

\* str.endswith without the "." separator: the suffix test alone
endswith(s, suffix) ==
    /\ Len(suffix) <= Len(s)
    /\ SubSeq(s, Len(s) - Len(suffix) + 1, Len(s)) = suffix

zone_matches_nodot(domain, zone) == endswith(domain, zone) \/ domain = zone

\* line 71: domain.endswith("." + zone) or domain == zone
zone_matches(domain, zone) == endswith(domain, Dot \o zone) \/ domain = zone

RECURSIVE find_zone_scan(_, _, _)
find_zone_scan(domain, zs, i) ==
    IF i > Len(zs) THEN EmptyStr
    ELSE IF zone_matches(domain, zs[i]) THEN zs[i]
    ELSE find_zone_scan(domain, zs, i + 1)

\* lines 63-73
find_zone(domain, zs) ==
    IF domain = None THEN EmptyStr ELSE find_zone_scan(domain, zs, 1)

----------------------------------------------------------------------------
(* Decoded JSON values and Python conversions *)

Num(n) == [t |-> "num", n |-> n]

Str(s) == [t |-> "str", s |-> s]

DigitVal == ("0" :> 0) @@ ("1" :> 1) @@ ("2" :> 2) @@ ("3" :> 3) @@ ("4" :> 4) @@
            ("5" :> 5) @@ ("6" :> 6) @@ ("7" :> 7) @@ ("8" :> 8) @@ ("9" :> 9)

RECURSIVE digits_value(_, _)
digits_value(s, acc) ==
    IF s = <<>> THEN acc ELSE digits_value(Tail(s), acc * 10 + DigitVal[Head(s)])

\* int(timestamp), lines 109 and 147: a number is kept, a string of digits is
\* parsed, any other string raises ValueError
py_int(v) ==
    IF v.t = "num" THEN [exc |-> "", n |-> v.n]
    ELSE IF v.s # <<>> /\ \A i \in 1..Len(v.s) : v.s[i] \in DOMAIN DigitVal
         THEN [exc |-> "", n |-> digits_value(v.s, 0)]
         ELSE [exc |-> "ValueError", n |-> 0]

\* a json.loads whose error on invalid syntax is not the one the loops catch
json_loads_uncaught(line) ==
    IF line.json = "invalid" THEN [exc |-> "UnicodeError", is_object |-> FALSE, data |-> <<>>]
    ELSE IF line.json = "scalar" THEN [exc |-> "", is_object |-> FALSE, data |-> <<>>]
    ELSE [exc |-> "", is_object |-> TRUE, data |-> line.data]

\* json.loads(line), lines 83 and 123: ValueError on invalid syntax, otherwise
\* the decoded value (an object, or a value that is not an object)
json_loads(line) ==
    IF line.json = "invalid" THEN [exc |-> "ValueError", is_object |-> FALSE, data |-> <<>>]
    ELSE IF line.json = "scalar" THEN [exc |-> "", is_object |-> FALSE, data |-> <<>>]
    ELSE [exc |-> "", is_object |-> TRUE, data |-> line.data]

----------------------------------------------------------------------------
(* Store operations *)

\* rdns_collection.find({'ip': ip_addr}).count(), line 140
find_count(coll, ip_addr) == Cardinality({i \in 1..Len(coll) : coll[i].ip = ip_addr})

\* rdns_collection.insert(insert_json), line 150
collection_insert(coll, doc) == Append(coll, doc)

first_match(coll, ip_addr) ==
    CHOOSE i \in 1..Len(coll) :
        /\ coll[i].ip = ip_addr
        /\ \A j \in 1..(i - 1) : coll[j].ip # ip_addr

\* an update that refreshes the date and keeps the first domain
collection_update_keep_fqdn(coll, ip_addr, domain, zone, now) ==
    IF find_count(coll, ip_addr) = 0 THEN coll
    ELSE [coll EXCEPT ![first_match(coll, ip_addr)] = [@ EXCEPT !.updated = now]]

\* an update that also moves the entry to the zone of the new domain
collection_update_rezone(coll, ip_addr, domain, zone, now) ==
    IF find_count(coll, ip_addr) = 0 THEN coll
    ELSE [coll EXCEPT ![first_match(coll, ip_addr)] =
              [@ EXCEPT !.fqdn = domain, !.zone = zone, !.updated = now]]

\* rdns_collection.update({"ip": ip_addr}, {'$set': {"fqdn": domain},
\* '$currentDate': {"updated": True}}), lines 152-154: the first document with
\* that ip gets the new fqdn and the current date; zone is the zone found for
\* the line, which the update does not use
collection_update(coll, ip_addr, domain, zone, now) ==
    IF find_count(coll, ip_addr) = 0 THEN coll
    ELSE [coll EXCEPT ![first_match(coll, ip_addr)] =
              [@ EXCEPT !.fqdn = domain, !.updated = now]]

\* dns_mgr.insert_record(insert_json, "sonar_dns"), line 111: DNSManager is not
\* part of the script; the document is added to the forward collection
insert_record(coll, doc) == Append(coll, doc)

----------------------------------------------------------------------------
(* One iteration of the loop of update_dns, lines 81-111 *)

Continue(n) == [exc |-> "", docs |-> <<>>, reads |-> n, ops |-> <<>>]

Raise(e) == [exc |-> e, docs |-> <<>>, reads |-> 0, ops |-> <<>>]

\* the forward document, lines 103-110
dns_insert_json(domain, zone, dtype, value, timestamp, now) ==
    [fqdn |-> domain, zone |-> zone, type |-> dtype, status |-> "unknown",
     value |-> value, sonar_timestamp |-> timestamp, created |-> now]

\* an update_dns that inserts matching lines whatever their value
update_dns_line_any_value(line, zs, now) ==
    LET dec == json_loads(line) IN
    IF dec.exc = "ValueError" THEN Continue(0)
    ELSE IF ~dec.is_object THEN Raise("TypeError")
    ELSE LET data == dec.data IN
    IF "type" \notin DOMAIN data THEN Raise("KeyError")
    ELSE LET keyerror == "value" \notin DOMAIN data \/ "name" \notin DOMAIN data
             value  == IF keyerror THEN EmptyStr ELSE data["value"]
             domain == IF keyerror THEN EmptyStr ELSE data["name"]
             zone   == IF keyerror THEN EmptyStr ELSE find_zone(data["name"], zs)
         IN
    IF "timestamp" \notin DOMAIN data THEN Raise("KeyError")
    ELSE IF zone # EmptyStr
    THEN LET ts == py_int(data["timestamp"]) IN
         IF ts.exc # "" THEN Raise(ts.exc)
         ELSE [exc |-> "",
               docs |-> <<dns_insert_json(domain, zone, data["type"], value, ts.n, now)>>,
               reads |-> 1, ops |-> <<"insert_record">>]
    ELSE Continue(0)

update_dns_line(line, zs, now) ==
    LET dec == json_loads(line) IN
    IF dec.exc = "ValueError" THEN Continue(0)                       \* lines 84-85
    ELSE IF ~dec.is_object THEN Raise("TypeError")                   \* line 89
    ELSE LET data == dec.data IN
    IF "type" \notin DOMAIN data THEN Raise("KeyError")              \* line 89
    ELSE LET keyerror == "value" \notin DOMAIN data \/ "name" \notin DOMAIN data
             value  == IF keyerror THEN EmptyStr ELSE data["value"]  \* lines 91, 96
             domain == IF keyerror THEN EmptyStr ELSE data["name"]   \* lines 92, 98
             zone   == IF keyerror THEN EmptyStr ELSE find_zone(data["name"], zs)
         IN
    IF "timestamp" \notin DOMAIN data THEN Raise("KeyError")         \* line 100
    ELSE IF zone # EmptyStr /\ value # EmptyStr                      \* line 101
    THEN LET ts == py_int(data["timestamp"]) IN                      \* line 109
         IF ts.exc # "" THEN Raise(ts.exc)
         ELSE [exc |-> "",
               docs |-> <<dns_insert_json(domain, zone, data["type"], value, ts.n, now)>>,
               reads |-> 1, ops |-> <<"insert_record">>]
    ELSE Continue(0)

----------------------------------------------------------------------------
(* One iteration of the loop of update_rdns, lines 121-154 *)

Keep(coll, n, ops) == [exc |-> "", coll |-> coll, reads |-> n, ops |-> ops]

Abort(coll, e, ops) == [exc |-> e, coll |-> coll, reads |-> 0, ops |-> ops]

\* the reverse document, lines 142-149: created and updated are two clock reads
rdns_insert_json(ip_addr, zone, domain, timestamp, now1, now2) ==
    [ip |-> ip_addr, zone |-> zone, fqdn |-> domain, status |-> "unknown",
     sonar_timestamp |-> timestamp, created |-> now1, updated |-> now2]

\* an update_rdns whose test of line 138 is "or" instead of "and"
update_rdns_line_or(line, zs, coll, now1, now2) ==
    LET dec == json_loads(line) IN
    IF dec.exc = "ValueError" THEN Keep(coll, 0, <<>>)
    ELSE IF ~dec.is_object THEN Abort(coll, "TypeError", <<>>)
    ELSE LET data == dec.data
             keyerror == "value" \notin DOMAIN data \/ "name" \notin DOMAIN data
             domain  == IF keyerror THEN EmptyStr ELSE data["value"]
             ip_addr == IF keyerror THEN EmptyStr ELSE data["name"]
             zone    == IF keyerror THEN EmptyStr ELSE find_zone(data["value"], zs)
         IN
    IF "timestamp" \notin DOMAIN data THEN Abort(coll, "KeyError", <<>>)
    ELSE IF zone # EmptyStr \/ domain # EmptyStr
    THEN IF find_count(coll, ip_addr) = 0
         THEN LET ts == py_int(data["timestamp"]) IN
              IF ts.exc # "" THEN Abort(coll, ts.exc, <<"find">>)
              ELSE Keep(collection_insert(coll,
                            rdns_insert_json(ip_addr, zone, domain, ts.n, now1, now2)),
                        2, <<"find", "insert">>)
         ELSE Keep(collection_update(coll, ip_addr, domain, zone, now1), 1, <<"find", "update">>)
    ELSE Keep(coll, 0, <<>>)

update_rdns_line(line, zs, coll, now1, now2) ==
    LET dec == json_loads(line) IN
    IF dec.exc = "ValueError" THEN Keep(coll, 0, <<>>)                     \* lines 124-125
    ELSE IF ~dec.is_object THEN Abort(coll, "TypeError", <<>>)           \* line 130
    ELSE LET data == dec.data
             keyerror == "value" \notin DOMAIN data \/ "name" \notin DOMAIN data
             domain  == IF keyerror THEN EmptyStr ELSE data["value"]
             ip_addr == IF keyerror THEN EmptyStr ELSE data["name"]
             zone    == IF keyerror THEN EmptyStr ELSE find_zone(data["value"], zs)
         IN
    IF "timestamp" \notin DOMAIN data THEN Abort(coll, "KeyError", <<>>) \* line 137
    ELSE IF zone # EmptyStr /\ domain # EmptyStr                     \* line 138
    THEN IF find_count(coll, ip_addr) = 0                            \* lines 140-141
         THEN LET ts == py_int(data["timestamp"]) IN                 \* line 147
              IF ts.exc # "" THEN Abort(coll, ts.exc, <<"find">>)
              ELSE Keep(collection_insert(coll,
                            rdns_insert_json(ip_addr, zone, domain, ts.n, now1, now2)),
                        2, <<"find", "insert">>)
         ELSE Keep(collection_update(coll, ip_addr, domain, zone, now1), 1, <<"find", "update">>)
    ELSE Keep(coll, 0, <<>>)

----------------------------------------------------------------------------
(* The inputs of a run *)

IP1 == <<"1">>

IP2 == <<"2">>

ZoneA == <<"a">>

ZoneB == <<"b">>

SubA == <<"b", ".", "a">>     \* a subdomain of zone a

SubB == <<"a", ".", "b">>     \* a subdomain of zone b

NoDot == <<"b", "a">>         \* ends with the characters of zone a, without a dot

ZoneLists == {<<ZoneA>>, <<ZoneA, ZoneB>>}

Dict(type, name, value, timestamp) ==
    ("type" :> type) @@ ("name" :> name) @@ ("value" :> value) @@ ("timestamp" :> timestamp)

Without(d, k) == [x \in (DOMAIN d) \ {k} |-> d[x]]

Obj(d) == [json |-> "object", data |-> d]

Invalid == [json |-> "invalid"]

Scalar == [json |-> "scalar"]

\* lines of a reverse-DNS file: name is the IP, value the domain
RdnsLines ==
    {Obj(Dict("ptr", IP1, d, Num(100))) : d \in {SubA, SubB, NoDot, EmptyStr}}
    \cup {Obj(Without(Dict("ptr", IP1, SubA, Num(100)), k)) : k \in {"name", "value", "timestamp"}}
    \cup {Obj(Dict("ptr", IP1, SubA, Str(<<"x">>))),
          Obj(Dict("ptr", IP2, NoDot, Str(<<"x">>))),
          Obj(Dict("ptr", IP2, SubA, Str(<<"7">>))),
          Invalid, Scalar}

\* lines of a forward-DNS file: name is the domain, value the address
DnsLines ==
    {Obj(Dict("a", d, IP1, Num(100))) : d \in {SubA, NoDot, ZoneA}}
    \cup {Obj(Dict("a", SubA, EmptyStr, Num(100)))}
    \cup {Obj(Without(Dict("a", SubA, IP1, Num(100)), k)) :
             k \in {"type", "name", "value", "timestamp"}}
    \cup {Obj(Dict("a", SubA, IP1, Str(<<"x">>))),
          Obj(Dict("a", NoDot, IP1, Str(<<"x">>))),
          Obj(Dict("a", SubB, IP2, Str(<<"7">>))),
          Invalid, Scalar}

\* a reverse collection that another run left behind
InitialCollections ==
    {<<>>,
     <<[ip |-> IP1, zone |-> ZoneA, fqdn |-> ZoneA, status |-> "confirmed",
        sonar_timestamp |-> 50, created |-> 0, updated |-> 0]>>}

Modes == {"rdns", "dns-any", "dns-a", "other"}

----------------------------------------------------------------------------
(* main, lines 180-274 *)

HarnessIdle == /\ fz_domain = EmptyStr /\ fz_zones = <<>> /\ fz_result = <<>>

Init ==
    /\ pc = "start"
    /\ sonar_file_type \in Modes
    /\ zones \in ZoneLists
    /\ todo = <<>>
    /\ read = <<>>
    /\ rdns_initial \in (IF sonar_file_type = "rdns" THEN InitialCollections ELSE {<<>>})
    /\ rdns_collection = rdns_initial
    /\ sonar_dns = <<>>
    /\ clock = 0
    /\ job_calls = <<>>
    /\ HarnessIdle

Stores == <<rdns_collection, rdns_initial, sonar_dns, clock, read>>

Inputs == <<sonar_file_type, zones>>

Harness == <<fz_domain, fz_zones, fz_result>>

\* lines 185-187: another instance is running
main_already_running ==
    /\ pc = "start"
    /\ pc' = "exit0"
    /\ UNCHANGED <<Inputs, Stores, Harness, todo, job_calls>>

\* lines 203-207, 227-232, 247-252: a recognized mode starts its job
main_record_job_start ==
    /\ pc = "start"
    /\ sonar_file_type \in {"rdns", "dns-any", "dns-a"}
    /\ job_calls' = Append(job_calls, "record_job_start")
    /\ pc' = "find"
    /\ UNCHANGED <<Inputs, Stores, Harness, todo>>

\* lines 270-274: no job is created for any other value
main_unrecognized ==
    /\ pc = "start"
    /\ sonar_file_type \notin {"rdns", "dns-any", "dns-a"}
    /\ pc' = "done"
    /\ UNCHANGED <<Inputs, Stores, Harness, todo, job_calls>>

\* the except clauses of main, lines 219-224, 239-244, 262-267
except_Exception ==
    /\ job_calls' = Append(job_calls, "record_job_error")
    /\ pc' = "exit0"

\* the URLs main takes from html_parser, in the order it ingests them
wanted_urls(mode, html_parser) ==
    IF mode = "rdns" THEN <<html_parser.rdns_url>>
    ELSE IF mode = "dns-any" THEN <<html_parser.any_url>>
    ELSE <<html_parser.a_url, html_parser.aaaa_url>>

nonempty_urls(urls) == SelectSeq(urls, LAMBDA u : u # "")

HtmlParsers == [rdns_url : {"", "rdns.gz"}, any_url : {"", "any.gz"},
                a_url : {"", "a.gz"}, aaaa_url : {"", "aaaa.gz"}]

\* r7.find_file_locations raises: lines 210, 235, 255
main_find_file_locations_raises ==
    /\ pc = "find"
    /\ except_Exception
    /\ UNCHANGED <<Inputs, Stores, Harness, todo>>

\* lines 211-215: no reverse file was found
main_rdns_url_empty ==
    /\ pc = "find"
    /\ sonar_file_type = "rdns"
    /\ job_calls' = Append(job_calls, "record_job_error")
    /\ pc' = "exit0"
    /\ UNCHANGED <<Inputs, Stores, Harness, todo>>

\* lines 210-217, 235-237, 255-260: the files main goes on to ingest
main_find_file_locations ==
    /\ pc = "find"
    /\ \E html_parser \in HtmlParsers :
          LET urls == nonempty_urls(wanted_urls(sonar_file_type, html_parser)) IN
          /\ sonar_file_type = "rdns" => urls # <<>>
          /\ todo' = urls
          /\ IF urls = <<>>
             THEN /\ job_calls' = Append(job_calls, "record_job_complete")
                  /\ pc' = "done"
             ELSE /\ pc' = "download"
                  /\ UNCHANGED job_calls
    /\ UNCHANGED <<Inputs, Stores, Harness>>

\* download_file raises inside download_remote_files, line 163
download_file_raises ==
    /\ pc = "download"
    /\ except_Exception
    /\ UNCHANGED <<Inputs, Stores, Harness, todo>>

\* a gunzip failure whose exit(1) the except clause of main catches as well
download_gunzip_caught ==
    /\ pc = "download"
    /\ job_calls' = job_calls \o <<"record_job_error", "record_job_error">>
    /\ pc' = "exit0"
    /\ UNCHANGED <<Inputs, Stores, Harness, todo>>

\* lines 168-173: gunzip fails
download_gunzip_fails ==
    /\ pc = "download"
    /\ job_calls' = Append(job_calls, "record_job_error")
    /\ pc' = "exit1"
    /\ UNCHANGED <<Inputs, Stores, Harness, todo>>

\* lines 157-177: the file is downloaded and unzipped
download_remote_files ==
    /\ pc = "download"
    /\ pc' = "update"
    /\ UNCHANGED <<Inputs, Stores, Harness, todo, job_calls>>

\* datetime.now(): the clock never runs backwards, and a read finds it where
\* the read before left it or one tick later
ClockReads(n) ==
    {t \in [now1 : clock..MaxClock, now2 : clock..MaxClock] :
        /\ t.now1 <= clock + 1
        /\ t.now1 <= t.now2
        /\ t.now2 <= t.now1 + 1
        /\ n = 0 => t.now2 = clock
        /\ n = 1 => t.now2 = t.now1}

\* update_rdns, lines 114-154: one line of the file
update_rdns ==
    /\ pc = "update"
    /\ sonar_file_type = "rdns"
    /\ Len(read) < MaxLines
    /\ \E line \in RdnsLines :
       \E t \in ClockReads(update_rdns_line(line, zones, rdns_collection, clock, clock).reads) :
          LET r == update_rdns_line(line, zones, rdns_collection, t.now1, t.now2) IN
          /\ read' = Append(read, [line |-> line, now1 |-> t.now1, now2 |-> t.now2,
                                   exc |-> r.exc, ops |-> r.ops])
          /\ rdns_collection' = r.coll
          /\ clock' = t.now2
          /\ IF r.exc # "" THEN except_Exception ELSE UNCHANGED <<pc, job_calls>>
    /\ UNCHANGED <<Inputs, Harness, todo, rdns_initial, sonar_dns>>

RECURSIVE insert_all(_, _)
insert_all(coll, docs) ==
    IF docs = <<>> THEN coll ELSE insert_all(insert_record(coll, Head(docs)), Tail(docs))

\* update_dns, lines 76-111: one line of the file
update_dns ==
    /\ pc = "update"
    /\ sonar_file_type \in {"dns-any", "dns-a"}
    /\ Len(read) < MaxLines
    /\ \E line \in DnsLines :
       \E t \in ClockReads(update_dns_line(line, zones, clock).reads) :
          LET r == update_dns_line(line, zones, t.now1) IN
          /\ read' = Append(read, [line |-> line, now1 |-> t.now1, now2 |-> t.now2,
                                   exc |-> r.exc, ops |-> r.ops])
          /\ sonar_dns' = insert_all(sonar_dns, r.docs)
          /\ clock' = t.now2
          /\ IF r.exc # "" THEN except_Exception ELSE UNCHANGED <<pc, job_calls>>
    /\ UNCHANGED <<Inputs, Harness, todo, rdns_initial, rdns_collection>>

\* the file is exhausted: the next file, or lines 226, 246, 269
update_end_of_file ==
    /\ pc = "update"
    /\ todo' = Tail(todo)
    /\ IF Tail(todo) = <<>>
       THEN /\ job_calls' = Append(job_calls, "record_job_complete")
            /\ pc' = "done"
       ELSE /\ pc' = "download"
            /\ UNCHANGED job_calls
    /\ UNCHANGED <<Inputs, Stores, Harness>>

Next ==
    \/ main_already_running
    \/ main_record_job_start
    \/ main_unrecognized
    \/ main_find_file_locations_raises
    \/ main_rdns_url_empty
    \/ main_find_file_locations
    \/ download_file_raises
    \/ download_gunzip_fails
    \/ download_remote_files
    \/ update_rdns
    \/ update_dns
    \/ update_end_of_file

Spec == Init /\ [][Next]_vars

----------------------------------------------------------------------------
(* find_zone on its own: every domain and zone sequence within the bounds *)

\* a Zone is a non-empty domain suffix string
ZoneStrings == StringsUpTo(MaxZoneLen) \ {EmptyStr}

RECURSIVE SeqsUpTo(_, _)
SeqsUpTo(S, n) ==
    IF n = 0 THEN {<<>>}
    ELSE LET P == SeqsUpTo(S, n - 1)
         IN  P \cup {Append(q, x) : q \in {y \in P : Len(y) = n - 1}, x \in S}

InitFZ ==
    /\ pc = "find_zone"
    /\ sonar_file_type = "other"
    /\ zones = <<>>
    /\ todo = <<>>
    /\ read = <<>>
    /\ rdns_initial = <<>>
    /\ rdns_collection = <<>>
    /\ sonar_dns = <<>>
    /\ clock = 0
    /\ job_calls = <<>>
    /\ fz_domain \in StringsUpTo(MaxDomainLen) \cup {None}
    /\ fz_zones \in SeqsUpTo(ZoneStrings, MaxZones)
    /\ fz_result = <<>>

call_find_zone ==
    /\ pc = "find_zone"
    /\ fz_result = <<>>
    /\ fz_result' = <<find_zone(fz_domain, fz_zones)>>
    /\ UNCHANGED <<pc, Inputs, Stores, todo, job_calls, fz_domain, fz_zones>>

NextFZ == call_find_zone

SpecFZ == InitFZ /\ [][NextFZ]_vars

----------------------------------------------------------------------------
(* What the claims speak of, stated without the operators of the code *)

\* d is z itself or a subdomain of z: d = p . z for some prefix p
InZone(d, z) ==
    \/ d = z
    \/ /\ Len(d) > Len(z)
       /\ d[Len(d) - Len(z)] = "."
       /\ \A k \in 1..Len(z) : d[Len(d) - Len(z) + k] = z[k]

\* the first zone of zs, in iteration order, that d belongs to; <<>> if none
FirstZone(d, zs) ==
    IF d = None \/ ~\E i \in 1..Len(zs) : InZone(d, zs[i]) THEN EmptyStr
    ELSE zs[CHOOSE i \in 1..Len(zs) :
                InZone(d, zs[i]) /\ \A j \in 1..(i - 1) : ~InZone(d, zs[j])]

\* C5: find_zone returns the first zone z of zones, in iteration order, with
\* domain = z or domain ending in "." + z, and the empty string exactly when
\* there is none (also for a domain that is None or empty); a domain that ends
\* with the characters of a zone without a separating dot does not match it.
C5_FindZoneIsLinearScan ==
    fz_result # <<>> =>
        /\ fz_result[1] = FirstZone(fz_domain, fz_zones)
        /\ (fz_result[1] = EmptyStr) <=>
               (fz_domain = None \/ \A i \in 1..Len(fz_zones) : ~InZone(fz_domain, fz_zones[i]))
        /\ fz_domain \in {None, EmptyStr} => fz_result[1] = EmptyStr

\* find_zone was called on a domain that ends with the characters of the first
\* zone without a dot before them and equals the second zone
C5_Witness ==
    /\ fz_result # <<>>
    /\ fz_domain = <<"a", "a">>
    /\ fz_zones = <<<<"a">>, <<"a", "a">>>>
    /\ fz_result[1] = <<"a", "a">>

----------------------------------------------------------------------------
(* The runs the claims speak of *)

RdnsRun == sonar_file_type = "rdns"

DnsRun == sonar_file_type \in {"dns-any", "dns-a"}

AllKeys == {"type", "name", "value", "timestamp"}

Has(l, k) == l.json = "object" /\ k \in DOMAIN l.data

\* the line decodes to an object that lacks exactly the key k
Lacks(l, k) == l.json = "object" /\ DOMAIN l.data = AllKeys \ {k}

Coercible(v) ==
    \/ v.t = "num"
    \/ v.t = "str" /\ v.s # <<>> /\ \A i \in 1..Len(v.s) : v.s[i] \in DOMAIN DigitVal

IntOf(v) == IF v.t = "num" THEN v.n ELSE digits_value(v.s, 0)

\* the loop of update_dns over the lines of es, from the collection coll
RECURSIVE run_update_dns(_, _, _)
run_update_dns(es, zs, coll) ==
    IF es = <<>> THEN coll
    ELSE LET r == update_dns_line(Head(es).line, zs, Head(es).now1) IN
         IF r.exc # "" THEN coll
         ELSE run_update_dns(Tail(es), zs, insert_all(coll, r.docs))

\* the loop of update_rdns over the lines of es, from the collection coll
RECURSIVE run_update_rdns(_, _, _)
run_update_rdns(es, zs, coll) ==
    IF es = <<>> THEN coll
    ELSE LET r == update_rdns_line(Head(es).line, zs, coll, Head(es).now1, Head(es).now2) IN
         IF r.exc # "" THEN r.coll
         ELSE run_update_rdns(Tail(es), zs, r.coll)

\* the stores are what the same run leaves on the lines es
SameAsRunOn(es) ==
    /\ DnsRun => sonar_dns = run_update_dns(es, zones, <<>>)
    /\ RdnsRun => rdns_collection = run_update_rdns(es, zones, rdns_initial)

\* C1: a decoded line that lacks one of type, name, value (forward) or one of
\* name, value (reverse) is skipped: it raises nothing, it makes no store
\* operation, and the stores end as in the run without such lines.
C1_MissingFieldSkipsLine ==
    LET incomplete(l) ==
            \/ DnsRun /\ \E k \in {"type", "name", "value"} : Lacks(l, k)
            \/ RdnsRun /\ \E k \in {"name", "value"} : Lacks(l, k)
    IN  /\ \A i \in 1..Len(read) :
               incomplete(read[i].line) => read[i].exc = "" /\ read[i].ops = <<>>
        /\ SameAsRunOn(SelectSeq(read, LAMBDA e : ~incomplete(e.line)))

\* C2: a line with all its other fields and a timestamp that int() cannot
\* convert is skipped: it raises nothing and makes no store operation,
\* whether its domain matches a zone or not and whether its ip has an entry.
C2_BadTimestampSkipsLine ==
    \A i \in 1..Len(read) :
        LET l == read[i].line IN
        (l.json = "object" /\ DOMAIN l.data = AllKeys /\ ~Coercible(l.data["timestamp"]))
            => read[i].exc = "" /\ read[i].ops = <<>>

\* C9: a line that json.loads rejects raises nothing in the run, makes no store
\* operation, and the stores end as in the run without such lines.
C9_UndecodableLineSkipped ==
    /\ \A i \in 1..Len(read) :
           read[i].line.json = "invalid" => read[i].exc = "" /\ read[i].ops = <<>>
    /\ SameAsRunOn(SelectSeq(read, LAMBDA e : e.line.json # "invalid"))

\* an undecodable line was read between two lines that changed a store
C9_Witness ==
    /\ Len(read) = 3
    /\ read[2].line.json = "invalid"
    /\ read[1].ops # <<>>
    /\ read[3].ops # <<>>
    /\ read[3].exc = ""

\* e is a line of a reverse run that found a zone for a non-empty domain and
\* went through the loop body without raising
Observed(e) ==
    /\ e.exc = ""
    /\ Has(e.line, "name") /\ Has(e.line, "value")
    /\ e.line.data["value"] # EmptyStr
    /\ FirstZone(e.line.data["value"], zones) # EmptyStr

OnePerIp(coll) == \A i, j \in 1..Len(coll) : coll[i].ip = coll[j].ip => i = j

\* C3: in a reverse run from a collection with at most one entry per ip, the
\* collection keeps at most one entry per ip, and the entry of every ip that the
\* lines processed so far observed has the domain of the last of these lines.
C3_LastLineWins ==
    (RdnsRun /\ OnePerIp(rdns_initial)) =>
        /\ OnePerIp(rdns_collection)
        /\ \A i \in 1..Len(read) :
               (/\ Observed(read[i])
                /\ \A j \in (i + 1)..Len(read) :
                       ~(Observed(read[j]) /\ read[j].line.data["name"] = read[i].line.data["name"]))
               => \E k \in 1..Len(rdns_collection) :
                      /\ rdns_collection[k].ip = read[i].line.data["name"]
                      /\ rdns_collection[k].fqdn = read[i].line.data["value"]

\* two lines gave the same ip two different domains of tracked zones
C3_Witness ==
    /\ RdnsRun
    /\ Len(read) >= 2
    /\ Observed(read[1]) /\ Observed(read[2])
    /\ read[1].line.data["name"] = read[2].line.data["name"]
    /\ read[1].line.data["value"] # read[2].line.data["value"]
    /\ Len(rdns_collection) = 1
    /\ rdns_collection[1].fqdn = read[2].line.data["value"]

\* C6: the entry inserted for the first observation of an ip has
\* created = updated.
C6_InsertCreatedEqualsUpdated ==
    (RdnsRun /\ read # <<>> /\ read[Len(read)].ops = <<"find", "insert">>) =>
        \A k \in 1..Len(rdns_collection) :
            rdns_collection[k].ip = read[Len(read)].line.data["name"]
                => rdns_collection[k].created = rdns_collection[k].updated

\* C7: a line of a reverse run that finds a zone for its non-empty domain, and
\* whose ip has an entry, changes the fqdn and updated fields of that entry and
\* nothing else of the collection.
C7_UpdateChangesOnlyFqdnAndUpdated ==
    [][(RdnsRun /\ read' # read) =>
          LET l == read'[Len(read')].line IN
          (/\ Has(l, "name") /\ Has(l, "value")
           /\ l.data["value"] # EmptyStr
           /\ FirstZone(l.data["value"], zones) # EmptyStr
           /\ \E k \in 1..Len(rdns_collection) : rdns_collection[k].ip = l.data["name"])
          => /\ Len(rdns_collection') = Len(rdns_collection)
             /\ \A k \in 1..Len(rdns_collection) :
                    /\ rdns_collection'[k].ip = rdns_collection[k].ip
                    /\ rdns_collection'[k].zone = rdns_collection[k].zone
                    /\ rdns_collection'[k].status = rdns_collection[k].status
                    /\ rdns_collection'[k].created = rdns_collection[k].created
                    /\ rdns_collection'[k].sonar_timestamp = rdns_collection[k].sonar_timestamp
                    /\ rdns_collection[k].ip # l.data["name"]
                           => rdns_collection'[k] = rdns_collection[k]]_vars

\* the entry of the earlier run was updated to a domain of another zone while
\* a second ip had an entry
C7_Witness ==
    /\ RdnsRun
    /\ read # <<>>
    /\ read[Len(read)].ops = <<"find", "update">>
    /\ Len(rdns_initial) = 1
    /\ Len(rdns_collection) = 2
    /\ rdns_collection[1].fqdn = SubB
    /\ rdns_collection[1].updated > rdns_initial[1].updated

\* the forward line decodes, has all its keys, an integer timestamp, a name in
\* a tracked zone and a non-empty value
Insertable(l) ==
    /\ l.json = "object"
    /\ DOMAIN l.data = AllKeys
    /\ Coercible(l.data["timestamp"])
    /\ l.data["value"] # EmptyStr
    /\ FirstZone(l.data["name"], zones) # EmptyStr

RECURSIVE ExpectedForward(_)
ExpectedForward(es) ==
    IF es = <<>> THEN <<>>
    ELSE LET e == es[Len(es)]
             before == ExpectedForward(SubSeq(es, 1, Len(es) - 1))
         IN  IF Insertable(e.line)
             THEN Append(before,
                         [fqdn |-> e.line.data["name"],
                          zone |-> FirstZone(e.line.data["name"], zones),
                          type |-> e.line.data["type"],
                          status |-> "unknown",
                          value |-> e.line.data["value"],
                          sonar_timestamp |-> IntOf(e.line.data["timestamp"]),
                          created |-> e.now1])
             ELSE before

\* C8: the forward collection is, in input order, one entry per line read that
\* decodes with a name in a tracked zone and a non-empty value, with status
\* unknown and the line's integer timestamp, duplicates included; a line with
\* no zone match or an empty value makes no store operation.
C8_ForwardAppendOnly ==
    DnsRun =>
        /\ sonar_dns = ExpectedForward(read)
        /\ \A i \in 1..Len(read) :
               LET l == read[i].line IN
               (/\ Has(l, "name") /\ Has(l, "value")
                /\ \/ l.data["value"] = EmptyStr
                   \/ FirstZone(l.data["name"], zones) = EmptyStr)
               => read[i].ops = <<>>

\* the same matching line was read twice and the collection has two entries
C8_Witness ==
    /\ DnsRun
    /\ Len(read) = 2
    /\ read[1].line = read[2].line
    /\ Insertable(read[1].line)
    /\ Len(sonar_dns) = 2

\* C10: from an empty reverse collection, every entry has an fqdn that is
\* equal to or a subdomain of the entry's own zone.
C10_FqdnInOwnZone ==
    (RdnsRun /\ rdns_initial = <<>>) =>
        \A k \in 1..Len(rdns_collection) :
            InZone(rdns_collection[k].fqdn, rdns_collection[k].zone)

\* C10 as amended: from an empty reverse collection, every entry has a tracked
\* zone as its zone and an fqdn that is equal to or a subdomain of some tracked
\* zone; of the entry's own zone while no later line has updated the entry.
C10_FqdnInSomeTrackedZone ==
    (RdnsRun /\ rdns_initial = <<>>) =>
        \A k \in 1..Len(rdns_collection) :
            LET e == rdns_collection[k]
                seen == {i \in 1..Len(read) :
                            Observed(read[i]) /\ read[i].line.data["name"] = e.ip}
            IN  /\ \E i \in 1..Len(zones) : e.zone = zones[i]
                /\ \E i \in 1..Len(zones) : InZone(e.fqdn, zones[i])
                /\ Cardinality(seen) = 1 => InZone(e.fqdn, e.zone)

\* an entry inserted in one zone was updated to a domain of another zone
C10_Witness ==
    /\ RdnsRun
    /\ rdns_initial = <<>>
    /\ \E k \in 1..Len(rdns_collection) :
           /\ ~InZone(rdns_collection[k].fqdn, rdns_collection[k].zone)
           /\ rdns_collection[k].zone = ZoneA
           /\ rdns_collection[k].fqdn = SubB

----------------------------------------------------------------------------
(* The job lifecycle *)

Ended == pc \in {"done", "exit0", "exit1"}

Terminal == {i \in 1..Len(job_calls) :
                job_calls[i] \in {"record_job_complete", "record_job_error"}}

Started == \E i \in 1..Len(job_calls) : job_calls[i] = "record_job_start"

\* C4: a run that ends, in any mode, has made exactly one call of
\* record_job_complete or record_job_error.
C4_OneTerminalStatus == Ended => Cardinality(Terminal) = 1

\* C4 as amended: a run that ends after it started its job (a recognized mode,
\* no other instance running) has made exactly one call of record_job_complete
\* or record_job_error; a run that ends without starting a job, for an
\* unrecognized mode or because another instance is running, has made no call.
C4_OneTerminalStatusPerStartedJob ==
    /\ Ended =>
          IF Started
          THEN Cardinality(Terminal) = 1 /\ sonar_file_type \in {"rdns", "dns-any", "dns-a"}
          ELSE job_calls = <<>> /\ read = <<>>
    /\ (pc = "done" /\ sonar_file_type \in {"rdns", "dns-any", "dns-a"}) => Started
    /\ ~Ended => Terminal = {}

\* a forward run ended by a failing gunzip of its second file, after lines of
\* the first were ingested
C4_Witness ==
    /\ pc = "exit1"
    /\ sonar_file_type = "dns-a"
    /\ sonar_dns # <<>>
    /\ job_calls = <<"record_job_start", "record_job_error">>

====
